---- MODULE Spec2Model ----
(***************************************************************************)
(* Model of the video analysis pipeline: VideoAnalyzer (frame sampling,    *)
(* sliding-window batching, sequential context-carrying window analysis,   *)
(* summary, cleanup) and BedrockClient (model invocation and token usage   *)
(* accounting).                                                            *)
(***************************************************************************)
EXTENDS Integers, Sequences, FiniteSets, TLC

\* ------------------------------------------------------------------ bounds
MaxFrames == 3      \* largest number of sampled frames
MaxBatch  == 3      \* largest configured frameBatchSize
MaxSlide  == 2      \* largest configured slidingWindowSize
MaxTok    == 1      \* largest token figure one response reports
SegMaxFrames == 20  \* segmentation alone: largest frame list
SegMaxBatch  == 7   \* segmentation alone: largest batchSize
SegMaxSlide  == 7   \* segmentation alone: largest slideSize
MaxFps       == 3   \* probing alone: largest frame-rate numerator
MaxNbFrames  == 2   \* probing alone: largest nb_frames figure
MaxDuration  == 2   \* probing alone: largest duration in seconds
MaxWindows == SegMaxFrames + MaxFrames + 1  \* cap on the window list while the loop spins

\* ------------------------------------------------------------ plain values
Min(a, b) == IF a < b THEN a ELSE b

\* the sentinel the running context starts with (part_000:392)
NoneContext == "None"
\* the text pushed for a window whose analysis failed (part_000:423)
Placeholder == "[error: window analysis failed]"
\* the JavaScript value undefined, as it appears in a string[] slot
Undefined == "undefined"
\* the sequence_summary text the model answers for window w: a different
\* text for each window
SequenceSummary(w) == "summary of window " \o ToString(w)

\* an optional JSON field: <<>> when absent, <<v>> when present
Absent == <<>>
OptTok == {Absent} \cup {<<v>> : v \in 1..MaxTok}
\* JavaScript  x || 0  on an optional number (bedrock-client.ts:318-319)
OrZero(x) == IF x = Absent THEN 0 ELSE x[1]

\* ------------------------------------------------- the Inference responses
\* What one call of BedrockClient.invokeModel can meet:
\*   sendThrow    client.send rejects, no response received
\*   bodyBad      a response whose body is not JSON (JSON.parse at :316 throws)
\*   noContent    a JSON body without content[0].text (:325 throws)
\*   textBad      text that is not JSON
\*   textNull     text that is the JSON value null
\*   noSummary    a JSON object with key_events but no sequence_summary
\*   noKeyEvents  a JSON object with sequence_summary but no key_events
\*   ok           a JSON object that conforms to the schema
BodyKinds == {"noContent", "textBad", "textNull", "noSummary", "noKeyEvents", "ok"}
NoBodyKinds == {"sendThrow", "bodyBad"}
UsageReports ==
    {[hasUsage |-> FALSE, uin |-> Absent, uout |-> Absent]} \cup
    [hasUsage : {TRUE}, uin : OptTok, uout : OptTok]
Responses ==
    {[kind |-> k, hasUsage |-> FALSE, uin |-> Absent, uout |-> Absent] :
        k \in NoBodyKinds} \cup
    {[kind |-> k, hasUsage |-> u.hasUsage, uin |-> u.uin, uout |-> u.uout] :
        k \in BodyKinds, u \in UsageReports}

VARIABLES
    stage,          \* position of analyze() in the pipeline
    batchSize,      \* config.frameBatchSize
    slideSize,      \* config.slidingWindowSize
    tempDirExists,  \* this.tempDir exists on disk
    videoInTemp,    \* the downloaded video file exists inside tempDir
    framesOnDisk,   \* frame image files present in outputDir/frames
    sampledFrames,  \* result of sampleVideoFrames: framePaths and indices
    windows,        \* window list built by applySlidingWindow
    i,              \* loop variable of applySlidingWindow
    warning,        \* coverage diagnosis computed by applySlidingWindow
    spin,           \* parity of the loop iterations made beyond the cap
    prevWindows,    \* history: window list returned by the previous call
    wi,             \* loop variable of generateFrameDescriptions (1-based)
    descriptions,   \* the description list; each entry tagged with its window
    prevFrameDesc,  \* running context
    totalTokens,    \* BedrockClient.totalTokens
    inflight,       \* external calls awaited and not yet settled
    completion,     \* how the try block of analyze() ended
    summary,        \* value generateVideoSummary handed back, if any
    result,         \* what the caller of analyze() has received
    calls,          \* history: Inference calls started, in order
    ctxLog,         \* history: running context handed to each window call
    failedWins,     \* history: windows whose call threw or answered text
                    \*          that is not a WindowAnalysis
    summaryResp,    \* history: response kind met by the summary call
    reported,       \* history: token figures reported by received responses
    cleanupRan,     \* history: cleanup() has been executed
    probe,          \* what ffprobe reports for the video stream
    videoInfo,      \* frame count and stride worked out by sampleVideoFrames
    usageReport     \* what printTokenUsage got from getTokenUsage

vars == <<stage, batchSize, slideSize, tempDirExists, videoInTemp,
          framesOnDisk, sampledFrames, windows, i, warning, spin,
          prevWindows, wi, descriptions,
          prevFrameDesc, totalTokens, inflight, completion, summary, result,
          calls, ctxLog, failedWins, summaryResp, reported, cleanupRan,
          probe, videoInfo, usageReport>>

\* groups of variables used in UNCHANGED clauses
cfgVars   == <<batchSize, slideSize>>
diskVars  == <<tempDirExists, videoInTemp, framesOnDisk>>
segVars   == <<sampledFrames, windows, i, warning, spin, prevWindows>>
descVars  == <<wi, descriptions, prevFrameDesc>>
endVars   == <<completion, summary, result>>
histVars  == <<calls, ctxLog, failedWins, summaryResp, reported>>
infoVars  == <<probe, videoInfo, usageReport>>

\* --------------------------------------------------------------------------
\* State after  new VideoAnalyzer(url, config, bedrockOptions)
\* --------------------------------------------------------------------------
EmptyFrames == [framePaths |-> <<>>, indices |-> <<>>]
\* no coverage diagnosis computed yet
NoWarning == [remainingFrames |-> 0, warned |-> FALSE, recommended |-> <<>>]
\* ffprobe metadata of the video stream: r_frame_rate "num/den" or absent,
\* nb_frames absent, a non-numeric string such as "N/A", or a number, and
\* duration in seconds or absent
NbFramesValues ==
    {[kind |-> "absent", n |-> 0], [kind |-> "nan", n |-> 0]} \cup
    {[kind |-> "num", n |-> v] : v \in 0..MaxNbFrames}
Probes ==
    [rFrameRate : {Absent} \cup {<<a, b>> : a \in 1..MaxFps, b \in 1..2},
     nbFrames   : NbFramesValues,
     duration   : {Absent} \cup {<<d>> : d \in 1..MaxDuration}]
\* the metadata of the video the pipeline runs are explored with
DefaultProbe ==
    [rFrameRate |-> <<1, 1>>,
     nbFrames   |-> [kind |-> "num", n |-> 1],
     duration   |-> <<1>>]
\* sampleVideoFrames has not resolved yet
NoVideoInfo == [sampled |-> FALSE, totalFrameCount |-> 0, frameInterval |-> 0]
\* getTokenUsage has not been called yet
NoUsageReport ==
    [read |-> FALSE,
     tokens |-> [inputTokens |-> 0, outputTokens |-> 0, totalTokens |-> 0],
     cost |-> 0]
\* no earlier call of applySlidingWindow has returned
NoCall == [returned |-> FALSE, windows |-> <<>>]

Init ==
    /\ stage = "Created"
    /\ batchSize \in 1..MaxBatch
    /\ slideSize \in 0..MaxSlide
    /\ tempDirExists = TRUE
    /\ videoInTemp = FALSE
    /\ framesOnDisk = {}
    /\ sampledFrames = EmptyFrames
    /\ windows = <<>>
    /\ i = 0
    /\ warning = NoWarning
    /\ spin = FALSE
    /\ prevWindows = NoCall
    /\ wi = 1
    /\ descriptions = <<>>
    /\ prevFrameDesc = NoneContext
    /\ totalTokens = [inputTokens |-> 0, outputTokens |-> 0, totalTokens |-> 0]
    /\ inflight = {}
    /\ completion = "none"
    /\ summary = "none"
    /\ result = [kind |-> "none", value |-> "none"]
    /\ calls = <<>>
    /\ ctxLog = <<>>
    /\ failedWins = {}
    /\ summaryResp = "none"
    /\ reported = [inputTokens |-> 0, outputTokens |-> 0]
    /\ cleanupRan = FALSE
    /\ probe = DefaultProbe
    /\ videoInfo = NoVideoInfo
    /\ usageReport = NoUsageReport

\* The try block of analyze() is left by an exception: catch logs and
\* rethrows, the finally block is still to run.
ThrowToFinally ==
    /\ stage' = "Finally"
    /\ completion' = "throw"

\* --------------------------------------------------------------------------
\* analyze(): 1. download
\* --------------------------------------------------------------------------
\* analyze() is called; downloadVideoFromUrl opens the write stream in
\* tempDir and issues the request.
StartAnalyze ==
    /\ stage = "Created"
    /\ stage' = "Downloading"
    /\ videoInTemp' = TRUE
    /\ inflight' = {"download"}
    /\ UNCHANGED <<infoVars, cfgVars, tempDirExists, framesOnDisk, segVars, descVars,
                   totalTokens, endVars, histVars, cleanupRan>>

\* The download settles: the file is complete, or the request failed.
DownloadSettles ==
    /\ stage = "Downloading"
    /\ inflight' = {}
    /\ \E ok \in BOOLEAN :
          IF ok THEN stage' = "Sampling" /\ UNCHANGED completion
                ELSE ThrowToFinally
    /\ UNCHANGED <<infoVars, cfgVars, diskVars, segVars, descVars, totalTokens,
                   summary, result, histVars, cleanupRan>>

\* --------------------------------------------------------------------------
\* analyze(): 2. sampleVideoFrames
\* --------------------------------------------------------------------------
\* frame_%06d.jpg files are numbered 1..n by the extractor; the list is the
\* sorted directory listing and the index is the number parsed from the name.
FrameFileNumber(k) == k
SampledFramesOf(n) ==
    [framePaths |-> [k \in 1..n |-> FrameFileNumber(k)],
     indices    |-> [k \in 1..n |-> FrameFileNumber(k)]]

\* the JavaScript number NaN, told apart from every count
NaN == -1

\* DEFAULT_CONFIG.sampleMsec
SampleMsec == 1000

\* fps = num / denom of r_frame_rate as the fraction <<num, denom>>, 0 when
\* the stream carries no r_frame_rate
Fps(p) == IF p.rFrameRate = Absent THEN <<0, 1>> ELSE p.rFrameRate
\* Math.ceil(a / b) and Math.round(a / b) for a >= 0, b > 0
Ceil(a, b) == (a + b - 1) \div b
Round(a, b) == (2 * a + b) \div (2 * b)
Max(a, b) == IF a > b THEN a ELSE b

\* parseInt(videoStream.nb_frames || "0", 10): an absent nb_frames is
\* replaced by "0" before it is parsed
ParsedNbFrames(p) ==
    CASE p.nbFrames.kind = "absent" -> 0
      [] p.nbFrames.kind = "nan"    -> NaN
      [] OTHER                      -> p.nbFrames.n

\* parseFloat(duration) * fps, rounded up
DurationTimesFps(p) == Ceil(p.duration[1] * Fps(p)[1], Fps(p)[2])

\* the frameCount getVideoInfo resolves with
FrameCount(p) ==
    LET parsed == ParsedNbFrames(p)
        fallen == IF parsed = NaN /\ p.duration # Absent /\ Fps(p)[1] # 0
                     THEN DurationTimesFps(p)
                     ELSE parsed
    IN  IF fallen = NaN THEN 0 ELSE fallen

\* Math.max(1, Math.round((sampleMsec / 1000) * fps))
FrameInterval(p) ==
    Max(1, Round(SampleMsec * Fps(p)[1], 1000 * Fps(p)[2]))

VideoInfoOf(p) ==
    [sampled |-> TRUE, totalFrameCount |-> FrameCount(p),
     frameInterval |-> FrameInterval(p)]

\* setupDirectory(framesDir) empties the frames directory, ffprobe and
\* ffmpeg run; either n frame files are written and listed, or a step fails
\* after some frame files were written.
SampleVideoFrames ==
    /\ stage = "Sampling"
    /\ \E n \in 0..MaxFrames, ok \in BOOLEAN :
          /\ framesOnDisk' = 1..n
          /\ IF ok
                THEN /\ sampledFrames' = SampledFramesOf(n)
                     /\ videoInfo' = VideoInfoOf(probe)
                     /\ stage' = "Segmenting"
                     /\ UNCHANGED completion
                ELSE /\ UNCHANGED <<sampledFrames, videoInfo>>
                     /\ ThrowToFinally
    /\ UNCHANGED <<probe, usageReport, cfgVars, tempDirExists, videoInTemp,
                   windows, i, warning, spin, prevWindows, descVars,
                   totalTokens, inflight, summary, result, histVars,
                   cleanupRan>>

\* --------------------------------------------------------------------------
\* analyze(): 3. applySlidingWindow
\* --------------------------------------------------------------------------
\* Array.prototype.slice(from, to) with 0-based from and exclusive to
Slice(seq, from, to) == SubSeq(seq, from + 1, Min(to, Len(seq)))

TotalFrames == Len(sampledFrames.framePaths)
LastStart == TotalFrames - batchSize

\* the parameter check at the head of applySlidingWindow
\* (faulty variant: the check is missing)
BatchTooLarge_Never == FALSE
BatchTooLarge == batchSize > TotalFrames

\* the loop condition  i <= lastStart
\* (faulty variant: the loop runs while i < totalFrames)
SlideLoopCond_UpToEnd == i < TotalFrames
SlideLoopCond == i <= LastStart

\* the window pushed by one iteration
WindowAt(start) ==
    [framePaths |-> Slice(sampledFrames.framePaths, start, start + batchSize),
     indices    |-> Slice(sampledFrames.indices, start, start + batchSize)]

\* JavaScript  a % b  on non-negative a: NaN when b is 0
JsMod(a, b) == IF b = 0 THEN NaN ELSE a % b

\* const remainingFrames = (totalFrames - batchSize) % slideSize
\* (faulty variant: the batch size is left out)
RemainingFrames_OfTotal == JsMod(TotalFrames, slideSize)
RemainingFrames == JsMod(TotalFrames - batchSize, slideSize)

\* the recommended slide sizes printed with the warning:
\* Array.from({length: batchSize - 1}, (_, i) => i + 1)
\*      .filter((i) => (totalFrames - batchSize) % i === 0)
FitsSlide(x) == JsMod(TotalFrames - batchSize, x) = 0
\* (faulty variant: the candidates run up to batchSize)
RecommendedSlides_UpToBatch ==
    SelectSeq([k \in 1..batchSize |-> k], FitsSlide)
RecommendedSlides ==
    SelectSeq([k \in 1..(batchSize - 1) |-> k], FitsSlide)

\* the diagnosis: the warning is printed when remainingFrames !== 0
CoverageDiagnosis ==
    [remainingFrames |-> RemainingFrames,
     warned          |-> RemainingFrames # 0,
     recommended     |-> IF RemainingFrames # 0 THEN RecommendedSlides ELSE <<>>]

\* const windows = []  is a fresh local list on every call
\* (faulty variant: the list is a field that survives between calls)
FreshWindows_Kept == windows
FreshWindows == <<>>

\* applySlidingWindow is entered: the parameter check throws, or the coverage
\* diagnosis is computed and the loop starts at i = 0 with an empty window
\* list.
ApplySlidingWindow ==
    /\ stage = "Segmenting"
    /\ IF BatchTooLarge
          THEN /\ ThrowToFinally
               /\ UNCHANGED <<windows, i, warning>>
          ELSE /\ stage' = "SegmentLoop"
               /\ warning' = CoverageDiagnosis
               /\ windows' = FreshWindows
               /\ i' = 0
               /\ UNCHANGED completion
    /\ UNCHANGED <<infoVars, cfgVars, diskVars, sampledFrames, spin, prevWindows,
                   descVars, totalTokens, inflight, summary, result, histVars,
                   cleanupRan>>

\* one iteration of  for (let i = 0; i <= lastStart; i += slideSize)
SlideLoopStep ==
    /\ stage = "SegmentLoop"
    /\ SlideLoopCond
    /\ Len(windows) < MaxWindows
    /\ windows' = Append(windows, WindowAt(i))
    /\ i' = i + slideSize
    /\ UNCHANGED <<infoVars, stage, cfgVars, diskVars, sampledFrames, warning, spin,
                   prevWindows, descVars, totalTokens, inflight, endVars,
                   histVars, cleanupRan>>

\* an iteration of the same loop once the window list has reached the cap:
\* the list is no longer tracked, only the parity of the iterations
SlideLoopSpin ==
    /\ stage = "SegmentLoop"
    /\ SlideLoopCond
    /\ Len(windows) >= MaxWindows
    /\ i' = i + slideSize
    /\ spin' = ~spin
    /\ UNCHANGED <<infoVars, stage, cfgVars, diskVars, sampledFrames, windows, warning,
                   prevWindows, descVars, totalTokens, inflight, endVars,
                   histVars, cleanupRan>>

\* the loop condition fails: applySlidingWindow returns the window list and
\* generateFrameDescriptions starts with an empty list and context "None".
SlideLoopExit ==
    /\ stage = "SegmentLoop"
    /\ ~SlideLoopCond
    /\ stage' = "Analyzing"
    /\ wi' = 1
    /\ descriptions' = <<>>
    /\ prevFrameDesc' = NoneContext
    /\ UNCHANGED <<infoVars, cfgVars, diskVars, segVars, totalTokens, inflight,
                   endVars, histVars, cleanupRan>>

\* --------------------------------------------------------------------------
\* BedrockClient.invokeModel / analyzeFrames / generateSummary
\* --------------------------------------------------------------------------
\* invokeModel throws: send rejected, body not JSON, or no content[0].text
InvokeModelThrows(r) == r.kind \in {"sendThrow", "bodyBad", "noContent"}

\* this.totalTokens.totalTokens = inputTokens + outputTokens of the totals
\* (faulty variant: the grand total takes the input total alone)
SumOfTotals_InputOnly(inTok, outTok) == inTok
SumOfTotals(inTok, outTok) == inTok + outTok

\* the accumulation at bedrock-client.ts:316-322: it runs once the body has
\* been parsed and before the text is taken out of it
\* (faulty variant: usage is counted only once the text has been parsed)
TokensAfter_OnlyParsedText(t, r) ==
    IF r.kind \in {"textNull", "noSummary", "noKeyEvents", "ok"} /\ r.hasUsage
       THEN [inputTokens  |-> t.inputTokens + OrZero(r.uin),
             outputTokens |-> t.outputTokens + OrZero(r.uout),
             totalTokens  |-> SumOfTotals(t.inputTokens + OrZero(r.uin),
                                          t.outputTokens + OrZero(r.uout))]
       ELSE t
TokensAfter(t, r) ==
    IF r.kind \in BodyKinds /\ r.hasUsage
       THEN [inputTokens  |-> t.inputTokens + OrZero(r.uin),
             outputTokens |-> t.outputTokens + OrZero(r.uout),
             totalTokens  |-> SumOfTotals(t.inputTokens + OrZero(r.uin),
                                          t.outputTokens + OrZero(r.uout))]
       ELSE t

\* analyzeFrames / generateSummary throw when invokeModel throws or when
\* JSON.parse(result.text) throws; any other text is cast and returned
ParseThrows(r) == InvokeModelThrows(r) \/ r.kind = "textBad"

\* --------------------------------------------------------------------------
\* analyze(): 4. generateFrameDescriptions
\* --------------------------------------------------------------------------
Entry(w, text) == [win |-> w, text |-> text]

\* the entries one pass of the loop body pushes for window w on response r:
\* the try block pushes result.sequence_summary, then reads
\* result.key_events.length; the catch block pushes the placeholder
PushedBy(w, r) ==
    IF ParseThrows(r) \/ r.kind = "textNull" THEN <<Entry(w, Placeholder)>>
    ELSE IF r.kind = "noSummary" THEN <<Entry(w, Undefined)>>
    ELSE IF r.kind = "noKeyEvents"
            THEN <<Entry(w, SequenceSummary(w)), Entry(w, Placeholder)>>
    ELSE <<Entry(w, SequenceSummary(w))>>

\* prevFrameDesc after the loop body: assigned right after the first push
ContextAfter(w, prev, r) ==
    IF ParseThrows(r) \/ r.kind = "textNull" THEN prev
    ELSE IF r.kind = "noSummary" THEN Undefined
    ELSE SequenceSummary(w)

\* what the history records as reported by a response: nothing when no
\* response body could be read, otherwise the usage figures, absent as zero
ReportedBy(r) ==
    IF r.kind \in NoBodyKinds \/ ~r.hasUsage
       THEN [inputTokens |-> 0, outputTokens |-> 0]
       ELSE [inputTokens |-> OrZero(r.uin), outputTokens |-> OrZero(r.uout)]

WindowCall(w) == [target |-> "window", win |-> w]
SummaryCall == [target |-> "summary", win |-> 0]

\* the await of the loop body: a new Inference call may be issued only when
\* the previous one has settled
\* (faulty variant: the calls are issued without awaiting the previous one)
MayIssueCall_NoAwait == TRUE
MayIssueCall == inflight = {}

\* loop head with i < windows.length: the window's frame files are read and
\* encoded (outside the try block), then analyzeFrames is called and awaited
StartWindow ==
    /\ stage = "Analyzing"
    /\ MayIssueCall
    /\ wi + Cardinality(inflight) <= Len(windows)
    /\ \E readable \in BOOLEAN :
          IF readable
             THEN /\ inflight' = inflight \cup {WindowCall(wi + Cardinality(inflight))}
                  /\ calls' = Append(calls, WindowCall(wi + Cardinality(inflight)))
                  /\ ctxLog' = Append(ctxLog, prevFrameDesc)
                  /\ UNCHANGED <<stage, completion>>
             ELSE /\ ThrowToFinally
                  /\ UNCHANGED <<inflight, calls, ctxLog>>
    /\ UNCHANGED <<infoVars, cfgVars, diskVars, segVars, descVars, totalTokens, summary,
                   result, failedWins, summaryResp, reported, cleanupRan>>

\* the for loop's i++: the loop moves to the next window whether the call
\* returned or threw
\* (faulty variant: a window whose call threw is tried again)
NextWindow_RetryOnThrow(w, r) == IF ParseThrows(r) THEN w ELSE w + 1
NextWindow(w, r) == w + 1

\* the awaited analyzeFrames call settles and the rest of the loop body runs
WindowSettles ==
    /\ stage = "Analyzing"
    /\ WindowCall(wi) \in inflight
    /\ \E r \in Responses :
          /\ totalTokens' = TokensAfter(totalTokens, r)
          /\ descriptions' = descriptions \o PushedBy(wi, r)
          /\ prevFrameDesc' = ContextAfter(wi, prevFrameDesc, r)
          /\ failedWins' = IF r.kind = "ok" THEN failedWins
                                             ELSE failedWins \cup {wi}
          /\ reported' =
                [inputTokens  |-> reported.inputTokens + ReportedBy(r).inputTokens,
                 outputTokens |-> reported.outputTokens + ReportedBy(r).outputTokens]
          /\ wi' = NextWindow(wi, r)
    /\ inflight' = inflight \ {WindowCall(wi)}
    /\ UNCHANGED <<infoVars, stage, cfgVars, diskVars, segVars, endVars, calls, ctxLog,
                   summaryResp, cleanupRan>>

\* --------------------------------------------------------------------------
\* analyze(): 5. generateVideoSummary
\* --------------------------------------------------------------------------
\* the loop of generateFrameDescriptions is over: the list is returned and
\* generateSummary issues its call
SummaryMayStart == wi > Len(windows)

StartSummary ==
    /\ stage = "Analyzing"
    /\ inflight = {}
    /\ SummaryMayStart
    /\ stage' = "Summarizing"
    /\ inflight' = {SummaryCall}
    /\ calls' = Append(calls, SummaryCall)
    /\ UNCHANGED <<infoVars, cfgVars, diskVars, segVars, descVars, totalTokens, endVars,
                   ctxLog, failedWins, summaryResp, reported, cleanupRan>>

\* generateSummary rejects exactly when invokeModel or JSON.parse throws
SummaryThrows(r) == ParseThrows(r)

\* the summary call settles: a thrown error is wrapped and rethrown, any
\* parsed value is kept as the VideoAnalysisSummary and printTokenUsage is
\* next
SummarySettles ==
    /\ stage = "Summarizing"
    /\ inflight = {SummaryCall}
    /\ inflight' = {}
    /\ \E r \in Responses :
          /\ totalTokens' = TokensAfter(totalTokens, r)
          /\ summaryResp' = r.kind
          /\ reported' =
                [inputTokens  |-> reported.inputTokens + ReportedBy(r).inputTokens,
                 outputTokens |-> reported.outputTokens + ReportedBy(r).outputTokens]
          /\ IF SummaryThrows(r)
                THEN /\ ThrowToFinally
                     /\ UNCHANGED summary
                ELSE /\ stage' = "Reporting"
                     /\ summary' = r.kind
                     /\ UNCHANGED completion
    /\ UNCHANGED <<infoVars, cfgVars, diskVars, segVars, descVars, result, calls, ctxLog,
                   failedWins, cleanupRan>>

\* --------------------------------------------------------------------------
\* analyze(): 6. printTokenUsage
\* --------------------------------------------------------------------------
\* the cost of getTokenUsage in units of 10^-8 USD:
\* inputTokens / 1000 * 0.00095 + outputTokens / 1000 * 0.0038
CostOf(t) == 95 * t.inputTokens + 380 * t.outputTokens

\* getTokenUsage(): the totals as they are and the cost worked out of them
GetTokenUsage(t) == [read |-> TRUE, tokens |-> t, cost |-> CostOf(t)]

\* printTokenUsage() logs the report of getTokenUsage(); analyze() then
\* returns the summary
PrintTokenUsage ==
    /\ stage = "Reporting"
    /\ usageReport' = GetTokenUsage(totalTokens)
    /\ stage' = "Finally"
    /\ completion' = "return"
    /\ UNCHANGED <<probe, videoInfo, cfgVars, diskVars, segVars, descVars,
                   totalTokens, inflight, summary, result, histVars,
                   cleanupRan>>

\* --------------------------------------------------------------------------
\* analyze(): finally { cleanup() }, then the caller gets the outcome
\* --------------------------------------------------------------------------
\* cleanup(): rimraf of tempDir when it exists; outputDir is not touched
TempDirAfterCleanup(exists) == FALSE

\* the finally block runs on a return as well as on a throw
\* (faulty variant: cleanup sits at the end of the try block only)
FinallyRuns_OnlyOnReturn == completion = "return"
FinallyRuns == completion \in {"return", "throw"}

Cleanup ==
    /\ stage = "Finally"
    /\ stage' = "Settled"
    /\ IF FinallyRuns
          THEN /\ tempDirExists' = TempDirAfterCleanup(tempDirExists)
               /\ videoInTemp' = (videoInTemp /\ tempDirExists')
               /\ cleanupRan' = TRUE
          ELSE UNCHANGED <<tempDirExists, videoInTemp, cleanupRan>>
    /\ UNCHANGED <<infoVars, cfgVars, framesOnDisk, segVars, descVars, totalTokens,
                   inflight, endVars, histVars>>

\* the promise of analyze() settles: the summary or the error reaches the caller
Deliver ==
    /\ stage = "Settled"
    /\ IF completion = "return"
          THEN /\ stage' = "Done"
               /\ result' = [kind |-> "summary", value |-> summary]
          ELSE /\ stage' = "Failed"
               /\ result' = [kind |-> "error", value |-> "none"]
    /\ UNCHANGED <<infoVars, cfgVars, diskVars, segVars, descVars, totalTokens, inflight,
                   completion, summary, histVars, cleanupRan>>

Next ==
    \/ StartAnalyze
    \/ DownloadSettles
    \/ SampleVideoFrames
    \/ ApplySlidingWindow
    \/ SlideLoopStep
    \/ SlideLoopSpin
    \/ SlideLoopExit
    \/ StartWindow
    \/ WindowSettles
    \/ StartSummary
    \/ SummarySettles
    \/ PrintTokenUsage
    \/ Cleanup
    \/ Deliver

Spec == Init /\ [][Next]_vars

\* --------------------------------------------------------------------------
\* applySlidingWindow on its own: any frame list and parameters, called once
\* and then once more with the same arguments
\* --------------------------------------------------------------------------
InitSeg ==
    /\ stage = "Segmenting"
    /\ batchSize \in 1..SegMaxBatch
    /\ slideSize \in 0..SegMaxSlide
    /\ tempDirExists = TRUE
    /\ videoInTemp = TRUE
    /\ \E n \in 0..SegMaxFrames :
          /\ framesOnDisk = 1..n
          /\ sampledFrames = SampledFramesOf(n)
    /\ windows = <<>>
    /\ i = 0
    /\ warning = NoWarning
    /\ spin = FALSE
    /\ prevWindows = NoCall
    /\ wi = 1
    /\ descriptions = <<>>
    /\ prevFrameDesc = NoneContext
    /\ totalTokens = [inputTokens |-> 0, outputTokens |-> 0, totalTokens |-> 0]
    /\ inflight = {}
    /\ completion = "none"
    /\ summary = "none"
    /\ result = [kind |-> "none", value |-> "none"]
    /\ calls = <<>>
    /\ ctxLog = <<>>
    /\ failedWins = {}
    /\ summaryResp = "none"
    /\ reported = [inputTokens |-> 0, outputTokens |-> 0]
    /\ cleanupRan = FALSE
    /\ probe = DefaultProbe
    /\ videoInfo = NoVideoInfo
    /\ usageReport = NoUsageReport

\* the first call has returned; applySlidingWindow is called again with the
\* same frame list, batchSize and slideSize
CallAgain ==
    /\ stage = "Analyzing"
    /\ ~prevWindows.returned
    /\ prevWindows' = [returned |-> TRUE, windows |-> windows]
    /\ stage' = "Segmenting"
    /\ UNCHANGED <<infoVars, cfgVars, diskVars, sampledFrames, windows, i, warning, spin,
                   descVars, totalTokens, inflight, endVars, histVars,
                   cleanupRan>>

NextSeg ==
    \/ ApplySlidingWindow
    \/ SlideLoopStep
    \/ SlideLoopSpin
    \/ SlideLoopExit
    \/ CallAgain

SegSpec == InitSeg /\ [][NextSeg]_vars

\* --------------------------------------------------------------------------
\* sampleVideoFrames on its own, over every stream metadata ffprobe may report
\* --------------------------------------------------------------------------
InitProbe ==
    /\ stage = "Sampling"
    /\ probe \in Probes
    /\ batchSize \in 1..MaxBatch
    /\ slideSize \in 0..MaxSlide
    /\ tempDirExists = TRUE
    /\ videoInTemp = TRUE
    /\ framesOnDisk = {}
    /\ sampledFrames = EmptyFrames
    /\ videoInfo = NoVideoInfo
    /\ windows = <<>>
    /\ i = 0
    /\ warning = NoWarning
    /\ spin = FALSE
    /\ prevWindows = NoCall
    /\ wi = 1
    /\ descriptions = <<>>
    /\ prevFrameDesc = NoneContext
    /\ totalTokens = [inputTokens |-> 0, outputTokens |-> 0, totalTokens |-> 0]
    /\ inflight = {}
    /\ completion = "none"
    /\ summary = "none"
    /\ result = [kind |-> "none", value |-> "none"]
    /\ calls = <<>>
    /\ ctxLog = <<>>
    /\ failedWins = {}
    /\ summaryResp = "none"
    /\ reported = [inputTokens |-> 0, outputTokens |-> 0]
    /\ cleanupRan = FALSE
    /\ usageReport = NoUsageReport

NextProbe == SampleVideoFrames

ProbeSpec == InitProbe /\ [][NextProbe]_vars

\* --------------------------------------------------------------------------
\* analyze() with every external call eventually settling and every step of
\* the synchronous code eventually taken
\* --------------------------------------------------------------------------
FairSpec == Spec /\ WF_vars(Next)

\* --------------------------------------------------------------------------
\* Properties
\* --------------------------------------------------------------------------
\* the description-list entries that window w pushed
EntriesOf(w) == {e \in DOMAIN descriptions : descriptions[e].win = w}
HasEntry(w) == EntriesOf(w) # {}
HasPlaceholder(w) ==
    \E e \in EntriesOf(w) : descriptions[e].text = Placeholder
\* window w is recorded as a success: it has an entry and no placeholder
RecordedSuccess(w) == HasEntry(w) /\ ~HasPlaceholder(w)
SummaryCallMade == \E k \in DOMAIN calls : calls[k].target = "summary"
Ended == stage \in {"Done", "Failed"}

\* C1: for n frames, 1 <= batchSize <= n and slideSize >= 1, the window list
\* returned by applySlidingWindow has floor((n - batchSize)/slideSize) + 1
\* windows, each of exactly batchSize frames, and window k (from 0) holds the
\* framePaths and indices of positions k*slideSize .. k*slideSize+batchSize-1
\* in the original order.
C1_WindowsAreFullSlices ==
    (stage \in {"Analyzing", "Summarizing"} /\ slideSize >= 1) =>
        /\ batchSize <= Len(sampledFrames.framePaths)
        /\ Len(windows) =
              ((Len(sampledFrames.framePaths) - batchSize) \div slideSize) + 1
        /\ \A k \in 1..Len(windows) :
              /\ Len(windows[k].framePaths) = batchSize
              /\ Len(windows[k].indices) = batchSize
              /\ \A j \in 1..batchSize :
                    /\ windows[k].framePaths[j] =
                          sampledFrames.framePaths[(k - 1) * slideSize + j]
                    /\ windows[k].indices[j] =
                          sampledFrames.indices[(k - 1) * slideSize + j]

\* C1 witness: two overlapping windows were produced
C1_Witness ==
    /\ stage = "Analyzing"
    /\ Len(windows) >= 2
    /\ batchSize >= 2
    /\ slideSize >= 1
    /\ slideSize < batchSize

\* C2: the description list returned by generateFrameDescriptions has exactly
\* one entry per window, entry k belongs to window k, and each entry is the
\* window's sequence_summary (whatever the response carried under that name)
\* or the failure placeholder, whatever the windows' calls met.
C2_OneEntryPerWindow ==
    stage = "Summarizing" =>
        /\ Len(descriptions) = Len(windows)
        /\ \A k \in 1..Len(descriptions) :
              /\ descriptions[k].win = k
              /\ descriptions[k].text \in {SequenceSummary(k), Placeholder, Undefined}

\* the latest window before w that is recorded as a success, 0 if none
LatestSuccessBefore(w) ==
    IF \E j \in 1..(w - 1) : RecordedSuccess(j)
       THEN CHOOSE j \in 1..(w - 1) :
               /\ RecordedSuccess(j)
               /\ \A m \in (j + 1)..(w - 1) : ~RecordedSuccess(m)
       ELSE 0
ContextExpectedAt(w) ==
    IF LatestSuccessBefore(w) = 0
       THEN NoneContext
       ELSE descriptions[CHOOSE e \in EntriesOf(LatestSuccessBefore(w)) : TRUE].text

\* C3: the running context handed to window w's call is the sequence_summary
\* of the latest earlier window recorded as a success, or "None" when there is
\* none; a window with a placeholder entry leaves the context alone, and the
\* context is never the placeholder.
C3_ContextIsLatestSuccess ==
    /\ prevFrameDesc # Placeholder
    /\ \A w \in 1..Len(ctxLog) :
          /\ ctxLog[w] # Placeholder
          /\ ctxLog[w] = ContextExpectedAt(w)

\* C4: when the call of window w throws or answers content that is not a
\* WindowAnalysis, the placeholder is recorded for w, and the run does not
\* end before every window has an entry and the summary call has been made.
C4_FailedWindowDoesNotAbort ==
    \A w \in failedWins :
        /\ HasPlaceholder(w)
        /\ Ended => /\ \A v \in 1..Len(windows) : HasEntry(v)
                    /\ SummaryCallMade

\* C5: when analyze() has handed its outcome to the caller, as a summary or as
\* an error from any stage, cleanup() has run and the temporary working
\* directory with the downloaded video is gone.
C5_CleanupBeforeOutcome ==
    (Ended \/ result.kind # "none") =>
        /\ cleanupRan
        /\ ~tempDirExists
        /\ ~videoInTemp

\* C5 witness: a run that failed after Inference calls had been made
C5_Witness ==
    /\ stage = "Failed"
    /\ result.kind = "error"
    /\ Len(calls) >= 1
    /\ cleanupRan

\* C6: once analyze() has ended in Done or Failed, no frame image written by
\* sampleVideoFrames in that run is left on disk.
C6_FramesRemoved ==
    Ended => framesOnDisk = {}

\* C7: when the summary call throws or answers text that is unparseable or is
\* not a VideoSummary, analyze() ends in Failed: the caller gets the error and
\* no summary, after cleanup has run.
C7_BadSummaryIsFatal ==
    (Ended /\ summaryResp \notin {"none", "ok"}) =>
        /\ stage = "Failed"
        /\ result.kind = "error"
        /\ cleanupRan

\* C8: when batchSize exceeds the number of sampled frames (zero included),
\* applySlidingWindow throws: the window loop is never entered, no Inference
\* call is made, and the run can only end in Failed.
C8_BatchTooLargeFails ==
    batchSize > Len(sampledFrames.framePaths) =>
        /\ stage \notin {"SegmentLoop", "Analyzing", "Summarizing", "Done"}
        /\ calls = <<>>
        /\ inflight \subseteq {"download"}
        /\ windows = <<>>
        /\ stage \in {"Finally", "Settled", "Failed"} => completion = "throw"

\* C8 witness: frames were sampled, fewer than batchSize, and the run failed
C8_Witness ==
    /\ stage = "Failed"
    /\ Len(sampledFrames.framePaths) >= 1
    /\ batchSize > Len(sampledFrames.framePaths)
    /\ calls = <<>>

\* C9: at most one call is in flight; the window calls are started in window
\* order, window w's only after every earlier window has its entry; the
\* summary call is started only after every window has an entry.
C9_SequentialCalls ==
    /\ Cardinality(inflight) <= 1
    /\ \A k \in 1..Len(calls) :
          IF calls[k].target = "window"
             THEN /\ calls[k].win = k
                  /\ \A v \in 1..(k - 1) : HasEntry(v)
             ELSE /\ k = Len(calls)
                  /\ k = Len(windows) + 1
                  /\ \A v \in 1..Len(windows) : HasEntry(v)

\* C9 witness: the summary call is in flight after three window analyses
C9_Witness ==
    /\ stage = "Summarizing"
    /\ inflight = {SummaryCall}
    /\ Len(windows) >= 3
    /\ Len(calls) = Len(windows) + 1

\* C10: the accumulated input and output totals equal the sums of the figures
\* reported by the responses received so far (absent report or field as zero),
\* including responses whose text failed to parse; a call that threw before a
\* response adds nothing.
C10_TotalsEqualReported ==
    /\ totalTokens.inputTokens = reported.inputTokens
    /\ totalTokens.outputTokens = reported.outputTokens

\* C10 witness: usage was counted in a run with a failed window
C10_Witness ==
    /\ stage = "Done"
    /\ failedWins # {}
    /\ reported.inputTokens >= 2
    /\ reported.outputTokens >= 1
    /\ totalTokens.inputTokens >= 2

\* --------------------------------------------------------------------------
\* Properties of the segmentation
\* --------------------------------------------------------------------------
Range(seq) == {seq[j] : j \in DOMAIN seq}
\* frame position p (1-based) of the frame list belongs to some window
Covered(p) ==
    \E k \in DOMAIN windows :
        sampledFrames.framePaths[p] \in Range(windows[k].framePaths)
\* applySlidingWindow has returned its window list
SegmentationReturned == stage = "Analyzing"
\* the 1-based position at which window k starts
StartOf(k) == windows[k].framePaths[1]

\* C11: for n >= batchSize >= 1 and slideSize >= 1 the remainder computed by
\* applySlidingWindow is (n - batchSize) mod slideSize, the trailing frames in
\* no window are exactly the last r frames, a warning is issued exactly when
\* r # 0 and the window list is still returned; n=10, batchSize=7, slideSize=2
\* gives 2 windows and 1 uncovered frame, n=20, batchSize=7, slideSize=7 gives
\* windows starting at 0 and 7 and frames 14..19 uncovered.
C11_RemainderIsUncoveredTail ==
    (SegmentationReturned /\ slideSize >= 1) =>
        LET n == Len(sampledFrames.framePaths)
            r == (n - batchSize) % slideSize
        IN  /\ warning.remainingFrames = r
            /\ warning.warned = (r # 0)
            /\ Len(windows) >= 1
            /\ \A p \in 1..n :
                  (\A q \in p..n : ~Covered(q)) <=> (p > n - r)
            /\ (n = 10 /\ batchSize = 7 /\ slideSize = 2) =>
                  /\ Len(windows) = 2
                  /\ warning.remainingFrames = 1
                  /\ {p \in 1..n : ~Covered(p)} = {10}
            /\ (n = 20 /\ batchSize = 7 /\ slideSize = 7) =>
                  /\ Len(windows) = 2
                  /\ StartOf(1) = 1 /\ StartOf(2) = 8
                  /\ {p \in 1..n : ~Covered(p)} = 15..20

\* C11 witness: 20 frames, batchSize 7, slideSize 7, returned with a warning
C11_Witness ==
    /\ SegmentationReturned
    /\ Len(sampledFrames.framePaths) = 20
    /\ batchSize = 7
    /\ slideSize = 7
    /\ warning.warned
    /\ warning.remainingFrames = 6

\* C12: whenever (n - batchSize) mod slideSize # 0 the recommended slide sizes
\* reported are exactly the s in 1..batchSize-1 with (n - batchSize) mod s = 0,
\* and the window list returned is the one the loop rule alone determines.
C12_RecommendedSlideSizes ==
    LET n == Len(sampledFrames.framePaths) IN
    (/\ stage \in {"SegmentLoop", "Analyzing"}
     /\ slideSize >= 1
     /\ (n - batchSize) % slideSize # 0) =>
        /\ warning.warned
        /\ Range(warning.recommended) =
              {x \in 1..(batchSize - 1) : (n - batchSize) % x = 0}
        /\ Len(warning.recommended) = Cardinality(Range(warning.recommended))
        /\ SegmentationReturned =>
              /\ Len(windows) = ((n - batchSize) \div slideSize) + 1
              /\ \A k \in 1..Len(windows) :
                    /\ Len(windows[k].framePaths) = batchSize
                    /\ StartOf(k) = (k - 1) * slideSize + 1

\* C12 witness: 10 frames, batchSize 7, slideSize 2: sizes 1 and 3 recommended
C12_Witness ==
    /\ SegmentationReturned
    /\ Len(sampledFrames.framePaths) = 10
    /\ batchSize = 7
    /\ slideSize = 2
    /\ warning.recommended = <<1, 3>>

\* the argument and the analyzer's fields a call could touch
AnalyzerState == <<sampledFrames, cfgVars, diskVars, totalTokens>>

\* C13: in any run of analyze() no Inference call is issued twice (one call
\* per window at most, one for the summary at most, no retry after a
\* failure), and a run that ends in Done has issued len(windows) + 1 calls.
C13_CallsAtMostOnce ==
    /\ \A a, b \in 1..Len(calls) : (calls[a] = calls[b]) => (a = b)
    /\ (stage = "Done") => (Len(calls) = Len(windows) + 1)

\* C13 witness: a run over several windows, one of them failed, ended in Done
C13_Witness ==
    /\ stage = "Done"
    /\ Len(windows) >= 2
    /\ failedWins # {}
    /\ Len(calls) = Len(windows) + 1

\* C14: a second call of applySlidingWindow with the same frame list,
\* batchSize and slideSize returns the same window list as the first, and no
\* step of a call changes the frame list, the configuration, the directories
\* or the token totals.
C14_PureFunction ==
    /\ []((SegmentationReturned /\ prevWindows.returned) =>
             windows = prevWindows.windows)
    /\ [][(stage \in {"Segmenting", "SegmentLoop"}) =>
             (AnalyzerState' = AnalyzerState)]_vars

\* C14 witness: the second call has returned a list of several windows
C14_Witness ==
    /\ SegmentationReturned
    /\ prevWindows.returned
    /\ Len(windows) >= 2
    /\ slideSize < batchSize

\* C18: when applySlidingWindow issues no coverage warning, with
\* 1 <= batchSize <= n and slideSize >= 1, every frame position belongs to at
\* least one window.
C18_NoWarningMeansCovered ==
    (SegmentationReturned /\ slideSize >= 1 /\ ~warning.warned) =>
        \A p \in 1..Len(sampledFrames.framePaths) : Covered(p)

\* C15: Failed is not reachable from the Analyzing stage: the only successors
\* of Analyzing(i) are Analyzing(i+1) and Summarizing, whatever fails while
\* a single window is handled.
C15_AnalyzingNeverFails ==
    [][(stage = "Analyzing") => (stage' \in {"Analyzing", "Summarizing"})]_vars

\* C16: when nb_frames is absent or not a number and both duration and a
\* non-zero fps are known, the total frame count reported is duration x fps
\* rounded up, not 0.
NoExplicitFrameCount == probe.nbFrames.kind \in {"absent", "nan"}
C16_FallbackFrameCount ==
    (/\ videoInfo.sampled
     /\ NoExplicitFrameCount
     /\ probe.duration # Absent
     /\ Fps(probe)[1] # 0) =>
        /\ videoInfo.totalFrameCount = DurationTimesFps(probe)
        /\ videoInfo.totalFrameCount # 0

\* C17: for a sampling stride s the k-th entry (counting from 0) of the
\* frame set carries the native frame number k * s as its index, and the
\* indices are strictly increasing.
C17_IndicesAreNativeNumbers ==
    videoInfo.sampled =>
        /\ \A k \in 1..Len(sampledFrames.indices) :
              sampledFrames.indices[k] = (k - 1) * videoInfo.frameInterval
        /\ \A k \in 1..(Len(sampledFrames.indices) - 1) :
              sampledFrames.indices[k] < sampledFrames.indices[k + 1]

\* C19: when every external call eventually returns or throws, every run of
\* analyze() eventually reaches Done or Failed, for every batchSize and
\* slideSize the code accepts.
C19_AnalyzeTerminates == <>(stage \in {"Done", "Failed"})

\* C20: totalTokens = inputTokens + outputTokens in every state, none of the
\* three totals ever decreases, and getTokenUsage leaves them as they are.
C20_TotalsConsistent ==
    /\ [](totalTokens.totalTokens =
             totalTokens.inputTokens + totalTokens.outputTokens)
    /\ [][/\ totalTokens'.inputTokens >= totalTokens.inputTokens
          /\ totalTokens'.outputTokens >= totalTokens.outputTokens
          /\ totalTokens'.totalTokens >= totalTokens.totalTokens
          /\ (stage = "Reporting") => (totalTokens' = totalTokens)]_vars

\* C20 witness: getTokenUsage has been read after calls that reported both
\* input and output tokens
C20_Witness ==
    /\ usageReport.read
    /\ usageReport.tokens = totalTokens
    /\ totalTokens.inputTokens > 0
    /\ totalTokens.outputTokens > 0

====
